---- MODULE Spec2Model ----
(***************************************************************************)
(* A model of the path tracer: Sphere::raycast, the World nearest-hit      *)
(* scan, the three materials' scatter, the recursive radiance function and *)
(* the render loop with its channel quantization.                          *)
(*                                                                         *)
(* Arithmetic.  The program computes in f32/f64.  The model computes in    *)
(* exact integers and rationals, and draws its inputs from the lattice     *)
(* points, axis-like directions and radii for which every square root and  *)
(* division of the code is exact (Sqrt below is not defined on anything    *)
(* else, so an inexact input stops TLC instead of being rounded).         *)
(* A rational is a pair <<n, d>> with d > 0.  NaN, which the code produces *)
(* for the square root of a negative average, is a value of its own.       *)
(***************************************************************************)
EXTENDS Integers, Sequences, FiniteSets, TLC

VARIABLES sp, wd, rc, sc, rn

vars == <<sp, wd, rc, sc, rn>>

(***************************************************************************)
(* Bounds of the model.                                                    *)
(***************************************************************************)
MaxCoord == 2

(***************************************************************************)
(* glam::Vec3 on the integer lattice.                                      *)
(***************************************************************************)
VAdd(u, v) == <<u[1] + v[1], u[2] + v[2], u[3] + v[3]>>

VSub(u, v) == <<u[1] - v[1], u[2] - v[2], u[3] - v[3]>>

VScale(v, k) == <<v[1] * k, v[2] * k, v[3] * k>>

VNeg(v) == <<0 - v[1], 0 - v[2], 0 - v[3]>>

VMul(u, v) == <<u[1] * v[1], u[2] * v[2], u[3] * v[3]>>

Dot(u, v) == u[1] * v[1] + u[2] * v[2] + u[3] * v[3]

LengthSquared(v) == Dot(v, v)

Abs(n) == IF n < 0 THEN 0 - n ELSE n

\* n / d for the inputs on which the quotient is an integer (d # 0)
Divides(d, n) == d # 0 /\ Abs(n) % Abs(d) = 0

Quot(n, d) ==
    IF (n >= 0) = (d > 0) THEN Abs(n) \div Abs(d) ELSE 0 - (Abs(n) \div Abs(d))

VDivides(d, v) == Divides(d, v[1]) /\ Divides(d, v[2]) /\ Divides(d, v[3])

VDiv(v, d) == <<Quot(v[1], d), Quot(v[2], d), Quot(v[3], d)>>

IsSquare(n) == n >= 0 /\ \E s \in 0..n : s * s = n

\* f32::sqrt on the perfect squares
Sqrt(n) == CHOOSE s \in 0..n : s * s = n

(***************************************************************************)
(* Rationals <<n, d>>, d > 0: the ray parameter t and the range bounds.    *)
(***************************************************************************)
RLt(p, q) == p[1] * q[2] < q[1] * p[2]

REq(p, q) == p[1] * q[2] = q[1] * p[2]

RMin(p, q) == IF RLt(q, p) THEN q ELSE p

(***************************************************************************)
(* Ray (src/src/main.rs) and Ray::at for a parameter whose point is on the *)
(* lattice.                                                                *)
(***************************************************************************)
Ray(origin, direction) == [origin |-> origin, direction |-> direction]

RayAt(r, t) == VAdd(r.origin, VDiv(VScale(r.direction, t[1]), t[2]))

(***************************************************************************)
(* Option<T>: None is the empty sequence, Some(x) the sequence of x.       *)
(***************************************************************************)
None == <<>>

Some(x) == <<x>>

IsSome(o) == Len(o) = 1

Unwrap(o) == o[1]

\* f32::MAX, the t_max of the radiance query: stands above every root of the model
F32Max == 1000000

(***************************************************************************)
(* Materials and spheres.  kind is "lambertian", "metal" or "dielectric";  *)
(* albedo is a color [n |-> <<r, g, b>>, d |-> denominator]; fuzz and      *)
(* index_of_refraction are rationals.                                      *)
(***************************************************************************)
Color(n, d) == [n |-> n, d |-> d]

LambertianMaterial(id, albedo) ==
    [id |-> id, kind |-> "lambertian", albedo |-> albedo, fuzz |-> <<0, 1>>,
     index_of_refraction |-> <<1, 1>>]

MetalMaterial(id, albedo, fuzz) ==
    [id |-> id, kind |-> "metal", albedo |-> albedo, fuzz |-> fuzz,
     index_of_refraction |-> <<1, 1>>]

DielectricMaterial(id, index) ==
    [id |-> id, kind |-> "dielectric", albedo |-> Color(<<1, 1, 1>>, 1),
     fuzz |-> <<0, 1>>, index_of_refraction |-> index]

Sphere(center, radius, material) ==
    [center |-> center, radius |-> radius, material |-> material]

(***************************************************************************)
(* Sphere::raycast, src/src/sphere.rs:22-56.                               *)
(***************************************************************************)
HalfB(s, r) == Dot(VSub(r.origin, s.center), r.direction)

Discriminant(s, r) ==
    LET oc == VSub(r.origin, s.center)
        a == LengthSquared(r.direction)
        half_b == Dot(oc, r.direction)
        c == LengthSquared(oc) - (s.radius * s.radius)
    IN  (half_b * half_b) - (a * c)

RootLower(s, r) ==
    <<(0 - HalfB(s, r)) - Sqrt(Discriminant(s, r)), LengthSquared(r.direction)>>

RootUpper(s, r) ==
    <<(0 - HalfB(s, r)) + Sqrt(Discriminant(s, r)), LengthSquared(r.direction)>>

\* lines 39-46: the root the intersection is built from, or None
SelectRoot(root_lower, root_upper, t_min, t_max) ==
    IF RLt(root_lower, t_min) \/ RLt(t_max, root_lower)
    THEN IF RLt(root_upper, t_max) \/ RLt(t_max, root_upper)
         THEN None
         ELSE Some(root_upper)
    ELSE Some(root_lower)

OutwardNormal(s, p) == VDiv(VSub(p, s.center), s.radius)

\* lines 48-55 with the normal left as the outward normal
MakeIntersectionNoFlip(s, r, t) ==
    LET p == RayAt(r, t)
        outward_normal == OutwardNormal(s, p)
        facing == Dot(r.direction, outward_normal) < 0
    IN  [p |-> p, t |-> t, facing |-> facing, normal |-> outward_normal,
         material |-> s.material]

\* lines 48-55
MakeIntersection(s, r, t) ==
    LET p == RayAt(r, t)
        outward_normal == OutwardNormal(s, p)
        facing == Dot(r.direction, outward_normal) < 0
        normal == IF facing THEN outward_normal ELSE VNeg(outward_normal)
    IN  [p |-> p, t |-> t, facing |-> facing, normal |-> normal,
         material |-> s.material]

SphereRaycast(s, r, t_min, t_max) ==
    IF Discriminant(s, r) < 0
    THEN None
    ELSE LET root == SelectRoot(RootLower(s, r), RootUpper(s, r), t_min, t_max)
         IN  IF IsSome(root)
             THEN Some(MakeIntersection(s, r, Unwrap(root)))
             ELSE None

(***************************************************************************)
(* The inputs on which the arithmetic of Sphere::raycast is exact: a       *)
(* non-zero direction (the precondition of the division by a), a non-zero  *)
(* radius, and either no real root or two rational roots whose points and  *)
(* normals are on the lattice.                                             *)
(***************************************************************************)
RootExact(s, r, t) ==
    /\ VDivides(t[2], VScale(r.direction, t[1]))
    /\ VDivides(s.radius, VSub(RayAt(r, t), s.center))

SphereExact(s, r) ==
    /\ LengthSquared(r.direction) > 0
    /\ s.radius # 0
    /\ \/ Discriminant(s, r) < 0
       \/ /\ IsSquare(Discriminant(s, r))
          /\ RootExact(s, r, RootLower(s, r))
          /\ RootExact(s, r, RootUpper(s, r))

(***************************************************************************)
(* Inputs of the model.                                                    *)
(***************************************************************************)
Coords == (0 - MaxCoord)..MaxCoord

Origins == {<<x, y, 0>> : x \in Coords, y \in 0..1}

Centers == {<<x, 0, 0>> : x \in Coords}

Directions ==
    {<<1, 0, 0>>, <<-1, 0, 0>>, <<2, 0, 0>>, <<0, 1, 0>>, <<0, -1, 0>>,
     <<1, 1, 0>>, <<1, -1, 0>>, <<0, 0, 1>>}

Radii == {1, -1, 2, -2}

TMins == {<<0, 1>>, <<1, 1000>>, <<1, 1>>}

TMaxs == {<<1, 1>>, <<2, 1>>, <<3, 1>>, <<F32Max, 1>>}

Grey == Color(<<5, 5, 5>>, 10)

Diffuse == LambertianMaterial(1, Grey)

(***************************************************************************)
(* Sphere::raycast applied to one ray, sphere and range.                   *)
(***************************************************************************)
SpIdle == [pc |-> "idle"]

SphereInit ==
    \E o \in Origins, d \in Directions, c \in Centers, rad \in Radii,
       t_min \in TMins, t_max \in TMaxs :
        /\ SphereExact(Sphere(c, rad, Diffuse), Ray(o, d))
        /\ sp = [pc |-> "start", ray |-> Ray(o, d),
                 sphere |-> Sphere(c, rad, Diffuse),
                 t_min |-> t_min, t_max |-> t_max, hit |-> None]

SphereCast ==
    /\ sp.pc = "start"
    /\ sp' = [sp EXCEPT !.pc = "done",
                        !.hit = SphereRaycast(sp.sphere, sp.ray, sp.t_min, sp.t_max)]
    /\ UNCHANGED <<wd, rc, sc, rn>>

WdIdle == [pc |-> "idle"]

RcIdle == [pc |-> "idle"]

ScIdle == [pc |-> "idle"]

RnIdle == [pc |-> "idle"]

InitSphere ==
    /\ SphereInit
    /\ wd = WdIdle /\ rc = RcIdle /\ sc = ScIdle /\ rn = RnIdle

NextSphere == SphereCast

SpecSphere == InitSphere /\ [][NextSphere]_vars

(***************************************************************************)
(* World::raycast, src/lib/world.rs:15-27, and find_closest_intersection,  *)
(* src/src/main.rs:209-221: the same scan.  A scan state is the pair of    *)
(* t_nearest and result.                                                   *)
(***************************************************************************)
\* the loop body with t_nearest never lowered
ScanStepNoShrink(obj, r, t_min, st) ==
    LET hit == SphereRaycast(obj, r, t_min, st.t_nearest)
    IN  IF IsSome(hit) THEN [st EXCEPT !.result = hit] ELSE st

\* the loop body, world.rs:20-23
ScanStep(obj, r, t_min, st) ==
    LET hit == SphereRaycast(obj, r, t_min, st.t_nearest)
    IN  IF IsSome(hit)
        THEN [t_nearest |-> Unwrap(hit).t, result |-> hit]
        ELSE st

RECURSIVE ScanFrom(_, _, _, _, _)
ScanFrom(world, i, r, t_min, st) ==
    IF i > Len(world)
    THEN st.result
    ELSE ScanFrom(world, i + 1, r, t_min, ScanStep(world[i], r, t_min, st))

find_closest_intersection(world, r, t_min, t_max) ==
    ScanFrom(world, 1, r, t_min, [t_nearest |-> t_max, result |-> None])

WorldExact(world, r) == \A i \in 1..Len(world) : SphereExact(world[i], r)

(***************************************************************************)
(* The scan as a loop over one list of surfaces.                           *)
(***************************************************************************)
MaxSurfaces == 3

PoolMaterial(i) ==
    IF i % 3 = 0 THEN LambertianMaterial(i, Grey)
    ELSE IF i % 3 = 1 THEN MetalMaterial(i, Color(<<7, 6, 5>>, 10), <<0, 1>>)
    ELSE DielectricMaterial(i, <<3, 2>>)

SurfacePool ==
    <<Sphere(<<2, 0, 0>>, 1, PoolMaterial(1)),
      Sphere(<<0, 0, 0>>, 1, PoolMaterial(2)),
      Sphere(<<2, 0, 0>>, 1, PoolMaterial(3)),
      Sphere(<<1, 1, 0>>, 1, PoolMaterial(4)),
      Sphere(<<2, 0, 0>>, 2, PoolMaterial(5)),
      Sphere(<<-2, 0, 0>>, -1, PoolMaterial(6))>>

Injective(f) == \A i, j \in DOMAIN f : i # j => f[i] # f[j]

\* the lists of 1..MaxSurfaces different surfaces of the pool, in every order
Worlds ==
    UNION {{[i \in 1..n |-> SurfacePool[f[i]]] :
               f \in {g \in [1..n -> 1..Len(SurfacePool)] : Injective(g)}} :
           n \in 1..MaxSurfaces}

WorldRays ==
    {Ray(<<x, 0, 0>>, d) : x \in {-1, 0, 1}, d \in {<<1, 0, 0>>, <<-1, 0, 0>>, <<2, 0, 0>>}}

WorldInit ==
    \E w \in Worlds, r \in WorldRays,
       t_min \in {<<1, 1000>>, <<1, 1>>}, t_max \in {<<2, 1>>, <<3, 1>>, <<F32Max, 1>>} :
        /\ WorldExact(w, r)
        /\ wd = [pc |-> "scan", world |-> w, ray |-> r, t_min |-> t_min,
                 t_max |-> t_max, idx |-> 1, t_nearest |-> t_max, result |-> None]

\* one iteration of `for obj in &self.surfaces`
WorldScan ==
    /\ wd.pc = "scan"
    /\ wd.idx <= Len(wd.world)
    /\ LET st == ScanStep(wd.world[wd.idx], wd.ray, wd.t_min,
                          [t_nearest |-> wd.t_nearest, result |-> wd.result])
       IN  wd' = [wd EXCEPT !.idx = wd.idx + 1,
                            !.t_nearest = st.t_nearest,
                            !.result = st.result]
    /\ UNCHANGED <<sp, rc, sc, rn>>

\* `return result`
WorldReturn ==
    /\ wd.pc = "scan"
    /\ wd.idx > Len(wd.world)
    /\ wd' = [wd EXCEPT !.pc = "done"]
    /\ UNCHANGED <<sp, rc, sc, rn>>

InitWorld ==
    /\ WorldInit
    /\ sp = SpIdle /\ rc = RcIdle /\ sc = ScIdle /\ rn = RnIdle

NextWorld == WorldScan \/ WorldReturn

SpecWorld == InitWorld /\ [][NextWorld]_vars

(***************************************************************************)
(* Rational arithmetic for the scatter functions, whose directions leave   *)
(* the lattice.  A rational vector is [n |-> <<x, y, z>>, d |-> d], d > 0. *)
(***************************************************************************)
RECURSIVE Gcd(_, _)
Gcd(a, b) == IF b = 0 THEN a ELSE Gcd(b, a % b)

RNorm(q) ==
    LET n == IF q[2] < 0 THEN 0 - q[1] ELSE q[1]
        d == Abs(q[2])
        g == Gcd(Abs(n), d)
    IN  <<Quot(n, g), Quot(d, g)>>

RAdd(p, q) == RNorm(<<p[1] * q[2] + q[1] * p[2], p[2] * q[2]>>)

RSub(p, q) == RNorm(<<p[1] * q[2] - q[1] * p[2], p[2] * q[2]>>)

RMul(p, q) == RNorm(<<p[1] * q[1], p[2] * q[2]>>)

RDiv(p, q) == RNorm(<<p[1] * q[2], p[2] * q[1]>>)

RAbs(p) == <<Abs(p[1]), p[2]>>

RECURSIVE RPowi(_, _)
RPowi(p, k) == IF k = 0 THEN <<1, 1>> ELSE RMul(p, RPowi(p, k - 1))

RIsSquare(p) == IsSquare(RNorm(p)[1]) /\ IsSquare(RNorm(p)[2])

\* f32::sqrt on the squares of rationals
RSqrt(p) == <<Sqrt(RNorm(p)[1]), Sqrt(RNorm(p)[2])>>

RVec(n, d) == [n |-> n, d |-> d]

RVOf(v) == RVec(v, 1)

RVReduce(a) ==
    LET g == Gcd(Gcd(Gcd(Abs(a.n[1]), Abs(a.n[2])), Abs(a.n[3])), a.d)
    IN  RVec(VDiv(a.n, g), Quot(a.d, g))

RVAdd(a, b) == RVReduce(RVec(VAdd(VScale(a.n, b.d), VScale(b.n, a.d)), a.d * b.d))

RVScale(a, q) == RVReduce(RVec(VScale(a.n, q[1]), a.d * q[2]))

RVNeg(a) == RVec(VNeg(a.n), a.d)

RVSub(a, b) == RVAdd(a, RVNeg(b))

RVDot(a, b) == RNorm(<<Dot(a.n, b.n), a.d * b.d>>)

RVLengthSquared(a) == RVDot(a, a)

RVIsZero(a) == a.n = <<0, 0, 0>>

\* Vec3::normalize for a vector of rational length
RVNormalize(a) == RVReduce(RVec(a.n, Sqrt(LengthSquared(a.n))))

(***************************************************************************)
(* src/lib/util.rs (and the copies in src/src/main.rs:132-157).            *)
(***************************************************************************)
\* abs_diff_eq(Vec3::ZERO, f32::EPSILON): no exact non-zero value of the model is that small
is_near_zero(v) == RVIsZero(v)

reflect(v, normal) == RVSub(v, RVScale(normal, RMul(<<2, 1>>, RVDot(v, normal))))

RefractPerp(v, normal, ratio) ==
    RVScale(RVAdd(v, RVScale(normal, RMin(RVDot(v, RVNeg(normal)), <<1, 1>>))), ratio)

refract(v, normal, ratio) ==
    LET inv_normal == RVNeg(normal)
        r_perp == RefractPerp(v, normal, ratio)
        r_para == RVScale(inv_normal,
                          RSqrt(RAbs(RSub(<<1, 1>>, RVLengthSquared(r_perp)))))
    IN  RVAdd(r_perp, r_para)

\* fn reflectance, dielectric.rs:43-46
reflectance(cos_theta, refraction_ratio) ==
    LET r == RPowi(RDiv(RSub(<<1, 1>>, refraction_ratio),
                        RAdd(<<1, 1>>, refraction_ratio)), 2)
    IN  RAdd(r, RMul(RSub(<<1, 1>>, r), RPowi(RSub(<<1, 1>>, cos_theta), 5)))

(***************************************************************************)
(* The three materials' Scatter::scatter.  dir is the incoming direction,  *)
(* isect the intersection; the random draws of the code are the arguments  *)
(* rand (a point on or in the unit sphere) and u (gen() in [0, 1)).  The   *)
(* result is None (absorbed) or Some of attenuation, origin and direction. *)
(***************************************************************************)
Scattered(attenuation, origin, direction) ==
    Some([attenuation |-> attenuation, origin |-> origin, direction |-> direction])

\* lambertian.rs:18-28
LambertianScatter(m, dir, isect, rand) ==
    LET sum == RVAdd(RVOf(isect.normal), rand)
        scattered_direction == IF is_near_zero(sum) THEN RVOf(isect.normal) ELSE sum
    IN  Scattered(m.albedo, isect.p, scattered_direction)

MetalDirection(m, dir, isect, rand) ==
    LET reflected_direction == RVNormalize(reflect(RVOf(dir), RVOf(isect.normal)))
    IN  RVAdd(reflected_direction, RVScale(rand, m.fuzz))

\* metal.rs:19-25 with the test written `>= 0.0`
MetalScatterGe(m, dir, isect, rand) ==
    LET scattered_direction == MetalDirection(m, dir, isect, rand)
    IN  IF RVDot(scattered_direction, RVOf(isect.normal))[1] >= 0
        THEN Scattered(m.albedo, isect.p, scattered_direction)
        ELSE None

\* metal.rs:19-25
MetalScatter(m, dir, isect, rand) ==
    LET scattered_direction == MetalDirection(m, dir, isect, rand)
    IN  IF RVDot(scattered_direction, RVOf(isect.normal))[1] > 0
        THEN Scattered(m.albedo, isect.p, scattered_direction)
        ELSE None

RefractionRatio(m, isect) ==
    IF isect.facing THEN RDiv(<<1, 1>>, m.index_of_refraction) ELSE m.index_of_refraction

CosTheta(dir, isect) ==
    RMin(RVDot(RVOf(isect.normal), RVNeg(RVNormalize(RVOf(dir)))), <<1, 1>>)

SinThetaSquared(dir, isect) ==
    RSub(<<1, 1>>, RMul(CosTheta(dir, isect), CosTheta(dir, isect)))

\* dielectric.rs:19-40
DielectricScatter(m, dir, isect, u) ==
    LET refraction_ratio == RefractionRatio(m, isect)
        r_direction_norm == RVNormalize(RVOf(dir))
        cos_theta == CosTheta(dir, isect)
        sin_theta == RSqrt(SinThetaSquared(dir, isect))
        cannot_refract == RLt(<<1, 1>>, RMul(refraction_ratio, sin_theta))
        schlick_approx == reflectance(cos_theta, refraction_ratio)
        scattered_direction ==
            IF cannot_refract \/ RLt(u, schlick_approx)
            THEN reflect(r_direction_norm, RVOf(isect.normal))
            ELSE refract(r_direction_norm, RVOf(isect.normal), refraction_ratio)
    IN  Scattered(m.albedo, isect.p, scattered_direction)

\* Scatter::scatter through the trait object
Scatter(m, dir, isect, rand, u) ==
    IF m.kind = "lambertian" THEN LambertianScatter(m, dir, isect, rand)
    ELSE IF m.kind = "metal" THEN MetalScatter(m, dir, isect, rand)
    ELSE DielectricScatter(m, dir, isect, u)

(***************************************************************************)
(* The inputs on which the arithmetic of scatter is exact: an incoming     *)
(* direction of integer length and, for a dielectric, a rational sine and  *)
(* a rational parallel part of the refracted direction.                    *)
(***************************************************************************)
ScatterExact(m, dir, isect) ==
    /\ IsSquare(LengthSquared(dir)) /\ LengthSquared(dir) > 0
    /\ m.kind = "dielectric" =>
          /\ RIsSquare(SinThetaSquared(dir, isect))
          /\ \/ RLt(<<1, 1>>, RMul(RefractionRatio(m, isect),
                                   RSqrt(SinThetaSquared(dir, isect))))
             \/ RIsSquare(RAbs(RSub(<<1, 1>>,
                   RVLengthSquared(RefractPerp(RVNormalize(RVOf(dir)),
                                               RVOf(isect.normal),
                                               RefractionRatio(m, isect))))))

(***************************************************************************)
(* Scatter::scatter applied to one material, incoming ray and              *)
(* intersection.  The intersections are those Sphere::raycast builds: a    *)
(* unit normal against the ray, facing only when the ray is not tangent.   *)
(***************************************************************************)
AxisUnits ==
    {<<1, 0, 0>>, <<-1, 0, 0>>, <<0, 1, 0>>, <<0, -1, 0>>, <<0, 0, 1>>, <<0, 0, -1>>}

\* draws of rand_on_unit_sphere()
UnitSphereSamples ==
    {RVOf(v) : v \in AxisUnits} \cup {RVec(<<3, 4, 0>>, 5), RVec(<<0, -4, 3>>, 5)}

\* draws of rand_in_unit_sphere()
UnitBallSamples ==
    UnitSphereSamples \cup {RVOf(<<0, 0, 0>>)} \cup {RVec(v, 2) : v \in AxisUnits}

\* draws of thread_rng().gen::<f32>()
UnitIntervalSamples == {<<0, 1>>, <<1, 100>>, <<1, 25>>, <<1, 2>>, <<99, 100>>}

ScatterMaterials ==
    {LambertianMaterial(1, Grey),
     MetalMaterial(2, Color(<<7, 6, 5>>, 10), <<0, 1>>),
     MetalMaterial(3, Color(<<7, 6, 5>>, 10), <<1, 2>>),
     MetalMaterial(4, Color(<<7, 6, 5>>, 10), <<1, 1>>),
     DielectricMaterial(5, <<3, 2>>)}

ScatterDirections ==
    {<<0, -1, 0>>, <<0, -2, 0>>, <<3, -4, 0>>, <<4, -3, 0>>, <<1, 0, 0>>,
     <<0, 0, 2>>, <<-1, 0, 0>>, <<0, 3, -4>>}

ScatterInit ==
    \E m \in ScatterMaterials, dir \in ScatterDirections, normal \in AxisUnits,
       facing \in BOOLEAN, p \in Centers :
        LET isect == [p |-> p, t |-> <<1, 1>>, facing |-> facing, normal |-> normal,
                      material |-> m]
        IN  /\ Dot(normal, dir) <= 0
            /\ facing => Dot(normal, dir) < 0
            /\ ScatterExact(m, dir, isect)
            /\ sc = [pc |-> "start", dir |-> dir, isect |-> isect,
                     rand |-> RVOf(<<0, 0, 0>>), u |-> <<0, 1>>, out |-> None]

ScatterLambertian ==
    /\ sc.pc = "start"
    /\ sc.isect.material.kind = "lambertian"
    /\ \E rand \in UnitSphereSamples :
          sc' = [sc EXCEPT !.pc = "done", !.rand = rand,
                           !.out = Scatter(sc.isect.material, sc.dir, sc.isect, rand, sc.u)]
    /\ UNCHANGED <<sp, wd, rc, rn>>

ScatterMetal ==
    /\ sc.pc = "start"
    /\ sc.isect.material.kind = "metal"
    /\ \E rand \in UnitBallSamples :
          sc' = [sc EXCEPT !.pc = "done", !.rand = rand,
                           !.out = Scatter(sc.isect.material, sc.dir, sc.isect, rand, sc.u)]
    /\ UNCHANGED <<sp, wd, rc, rn>>

ScatterDielectric ==
    /\ sc.pc = "start"
    /\ sc.isect.material.kind = "dielectric"
    /\ \E u \in UnitIntervalSamples :
          sc' = [sc EXCEPT !.pc = "done", !.u = u,
                           !.out = Scatter(sc.isect.material, sc.dir, sc.isect, sc.rand, u)]
    /\ UNCHANGED <<sp, wd, rc, rn>>

InitScatter ==
    /\ ScatterInit
    /\ sp = SpIdle /\ wd = WdIdle /\ rc = RcIdle /\ rn = RnIdle

NextScatter == ScatterLambertian \/ ScatterMetal \/ ScatterDielectric

SpecScatter == InitScatter /\ [][NextScatter]_vars

(***************************************************************************)
(* Colors (DVec3) as rational triples with one denominator, background and *)
(* raycast of src/src/main.rs:223-248.                                     *)
(***************************************************************************)
CReduce(c) ==
    LET g == Gcd(Gcd(Gcd(Abs(c.n[1]), Abs(c.n[2])), Abs(c.n[3])), c.d)
    IN  Color(VDiv(c.n, g), Quot(c.d, g))

ColorZero == Color(<<0, 0, 0>>, 1)

CMul(a, b) == CReduce(Color(VMul(a.n, b.n), a.d * b.d))

CAdd(a, b) == CReduce(Color(VAdd(VScale(a.n, b.d), VScale(b.n, a.d)), a.d * b.d))

CScale(a, q) == CReduce(Color(VScale(a.n, q[1]), a.d * q[2]))

CSub(a, b) == CAdd(a, CScale(b, <<-1, 1>>))

\* DVec3::lerp
Lerp(a, b, t) == CAdd(a, CScale(CSub(b, a), t))

\* main.rs:223-232, for a direction of integer length
background(r) ==
    LET COLOR_T == Color(<<5, 7, 10>>, 10)
        COLOR_B == Color(<<1, 1, 1>>, 1)
        ray_dir_normalized == RVNormalize(RVOf(r.direction))
        t == RMul(<<1, 2>>,
                  RAdd(<<ray_dir_normalized.n[2], ray_dir_normalized.d>>, <<1, 1>>))
    IN  Lerp(COLOR_B, COLOR_T, t)

\* the t_min of the query at main.rs:239
RaycastTMin == <<1, 1000>>

\* main.rs:241, the recursion entered with the same depth
NextDepthSame(depth) == depth

\* main.rs:241, `depth - 1`
NextDepth(depth) == depth - 1

\* main.rs:241 with the attenuation dropped
AttenuateDropped(attenuation, radiance) == radiance

\* main.rs:241, `attenuation * raycast(..)`
Attenuate(attenuation, radiance) == CMul(attenuation, radiance)

\* the rays whose query, background and scatter are exact in a world
RadianceExact(world, r) ==
    /\ WorldExact(world, r)
    /\ IsSquare(LengthSquared(r.direction))
    /\ LET hit == find_closest_intersection(world, r, RaycastTMin, <<F32Max, 1>>)
       IN  IsSome(hit) =>
              ScatterExact(Unwrap(hit).material, r.direction, Unwrap(hit))

\* the draws of the three random sources a scatter may use
RandomDraws(m) ==
    IF m.kind = "lambertian"
    THEN {[rand |-> v, u |-> <<0, 1>>] : v \in UnitSphereSamples}
    ELSE IF m.kind = "metal"
    THEN {[rand |-> v, u |-> <<0, 1>>] : v \in UnitBallSamples}
    ELSE {[rand |-> RVOf(<<0, 0, 0>>), u |-> u] : u \in UnitIntervalSamples}

(***************************************************************************)
(* raycast as a machine: rc.stack holds the frames of the calls waiting    *)
(* for their recursive call (depth, ray and the attenuation to multiply    *)
(* with), rc.ray and rc.depth are the arguments of the innermost call.     *)
(* rc.calls and rc.queries count the calls of raycast and of               *)
(* find_closest_intersection; rc.atts, rc.term and rc.last record the      *)
(* path: the attenuations of its scatters, how it ended, and its last ray. *)
(***************************************************************************)
MaxDepth == 3

RadianceWorlds ==
    {<<Sphere(<<2, 0, 0>>, 1, LambertianMaterial(1, Grey)),
       Sphere(<<-2, 0, 0>>, 1, MetalMaterial(2, Color(<<7, 6, 5>>, 10), <<1, 1>>))>>,
     <<Sphere(<<2, 0, 0>>, 1, DielectricMaterial(1, <<3, 2>>)),
       Sphere(<<-2, 0, 0>>, 1, LambertianMaterial(2, Color(<<-1, 0, 1>>, 1))),
       Sphere(<<0, 3, 0>>, -1, MetalMaterial(3, Color(<<4, 2, 1>>, 10), <<0, 1>>))>>,
     <<>>}

RadianceRays ==
    {Ray(o, d) : o \in {<<0, 0, 0>>, <<0, 1, 0>>, <<4, 0, 0>>},
                 d \in AxisUnits \cup {<<2, 0, 0>>, <<0, -2, 0>>}}

RadianceInit ==
    \E w \in RadianceWorlds, r \in RadianceRays, depth \in 0..MaxDepth :
        /\ RadianceExact(w, r)
        /\ rc = [pc |-> "call", world |-> w, ray |-> r, depth |-> depth,
                 depth0 |-> depth, stack |-> <<>>, value |-> ColorZero,
                 calls |-> 0, queries |-> 0, atts |-> <<>>, term |-> "none",
                 last |-> r]

RcReturn(value, term, queried) ==
    rc' = [rc EXCEPT !.pc = "return", !.value = value, !.term = term,
                     !.last = rc.ray,
                     !.calls = rc.calls + 1,
                     !.queries = rc.queries + (IF queried THEN 1 ELSE 0)]

\* one call of raycast up to its return or its recursive call
RaycastCall ==
    /\ rc.pc = "call"
    /\ \/ /\ rc.depth <= 0
          /\ RcReturn(ColorZero, "exhausted", FALSE)
       \/ /\ rc.depth > 0
          /\ \E hit \in {find_closest_intersection(rc.world, rc.ray, RaycastTMin,
                                                   <<F32Max, 1>>)} :
                \/ /\ hit = None
                   /\ RcReturn(background(rc.ray), "miss", TRUE)
                \/ /\ IsSome(hit)
                   /\ \E draw \in RandomDraws(Unwrap(hit).material) :
                      \E out \in {Scatter(Unwrap(hit).material, rc.ray.direction,
                                          Unwrap(hit), draw.rand, draw.u)} :
                         \/ /\ out = None
                            /\ RcReturn(ColorZero, "absorbed", TRUE)
                         \/ /\ IsSome(out)
                            /\ Unwrap(out).direction.d = 1
                            /\ \E scattered \in {Ray(Unwrap(out).origin,
                                                     Unwrap(out).direction.n)} :
                                  /\ RadianceExact(rc.world, scattered)
                                  /\ rc' = [rc EXCEPT
                                       !.stack = Append(rc.stack,
                                           [depth |-> rc.depth, ray |-> rc.ray,
                                            attenuation |-> Unwrap(out).attenuation]),
                                       !.ray = scattered,
                                       !.depth = NextDepth(rc.depth),
                                       !.calls = rc.calls + 1,
                                       !.queries = rc.queries + 1,
                                       !.atts = Append(rc.atts,
                                                       Unwrap(out).attenuation)]
    /\ UNCHANGED <<sp, wd, sc, rn>>

\* the return of a recursive call: the caller multiplies and returns in its turn
RaycastReturn ==
    /\ rc.pc = "return"
    /\ \/ /\ rc.stack = <<>>
          /\ rc' = [rc EXCEPT !.pc = "done"]
       \/ /\ rc.stack # <<>>
          /\ LET frame == rc.stack[Len(rc.stack)]
             IN  rc' = [rc EXCEPT
                    !.stack = SubSeq(rc.stack, 1, Len(rc.stack) - 1),
                    !.depth = frame.depth,
                    !.ray = frame.ray,
                    !.value = Attenuate(frame.attenuation, rc.value)]
    /\ UNCHANGED <<sp, wd, sc, rn>>

Init ==
    /\ RadianceInit
    /\ sp = SpIdle /\ wd = WdIdle /\ sc = ScIdle /\ rn = RnIdle

Next == RaycastCall \/ RaycastReturn

Spec == Init /\ [][Next]_vars

(***************************************************************************)
(* raycast as a function: the set of the values it can return over the     *)
(* draws of its scatters (those that keep the path exact).                 *)
(***************************************************************************)
RECURSIVE raycast(_, _, _)
raycast(world, r, depth) ==
    IF depth <= 0
    THEN {ColorZero}
    ELSE LET hit == find_closest_intersection(world, r, RaycastTMin, <<F32Max, 1>>)
         IN  IF hit = None
             THEN {background(r)}
             ELSE UNION {
                    LET out == Scatter(Unwrap(hit).material, r.direction, Unwrap(hit),
                                       draw.rand, draw.u)
                    IN  IF out = None
                        THEN {ColorZero}
                        ELSE IF /\ Unwrap(out).direction.d = 1
                                /\ RadianceExact(world, Ray(Unwrap(out).origin,
                                                            Unwrap(out).direction.n))
                        THEN {Attenuate(Unwrap(out).attenuation, c) :
                                 c \in raycast(world,
                                               Ray(Unwrap(out).origin,
                                                   Unwrap(out).direction.n),
                                               NextDepth(depth))}
                        ELSE {} :
                    draw \in RandomDraws(Unwrap(hit).material)}

(***************************************************************************)
(* The quantization of a channel, main.rs:355-360 and format_color,        *)
(* main.rs:365-370.  An f64 after the square root is NaN or a real >= 0,   *)
(* kept as the rational it is the root of: Root(q) stands for sqrt(q).     *)
(***************************************************************************)
NaN == <<>>

\* sqrt(q), kept as the rational q it is the root of
Root(q) == [root |-> TRUE, q |-> q]

\* the value q itself
Exact(q) == [root |-> FALSE, q |-> q]

\* f64::sqrt: NaN below zero
F64Sqrt(q) == IF q[1] < 0 THEN NaN ELSE Root(RNorm(q))

\* a channel left as it is
ClampChannelNone(v) == v

\* clamp(0.0, 0.999) on a square root: NaN stays NaN, a root is never below
\* 0.0, and sqrt(q) > 0.999 when q > 998001 / 1000000
ClampChannel(v) ==
    IF v = NaN THEN NaN
    ELSE IF RLt(<<998001, 1000000>>, v.q) THEN Exact(<<999, 1000>>)
    ELSE v

\* floor(sqrt(n))
FloorSqrt(n) == CHOOSE k \in 0..1024 : k * k <= n /\ n < (k + 1) * (k + 1)

\* (v * 256.0) as i32
FormatChannel256(v) ==
    IF v = NaN THEN 0
    ELSE IF v.root THEN FloorSqrt((65536 * v.q[1]) \div v.q[2])
    ELSE (256 * v.q[1]) \div v.q[2]

\* (v * 255.999) as i32, format_color: the cast truncates and takes NaN to 0;
\* 255.999^2 = 65535 + 488001 / 1000000
FormatChannel(v) ==
    IF v = NaN THEN 0
    ELSE IF v.root
    THEN FloorSqrt((65535 * v.q[1] + (488001 * v.q[1]) \div 1000000) \div v.q[2])
    ELSE (255999 * v.q[1]) \div (1000 * v.q[2])

\* main.rs:356-358 and 366-368: one channel of the accumulated color to its integer
QuantizeChannel(sum, samples) ==
    FormatChannel(ClampChannel(F64Sqrt(<<sum[1], sum[2] * samples>>)))

(***************************************************************************)
(* The render loop of main, main.rs:333-362.  rn.out is the image file as  *)
(* its lines; a pixel line also records the pixel and the accumulated      *)
(* color it was made from.                                                 *)
(***************************************************************************)
ImageW == 3

\* IMAGE_H = (IMAGE_W as f32 / ASPECT_RATIO) as u64, ASPECT_RATIO = 3 / 2
ImageH == (ImageW * 2) \div 3

SamplesPerPixel == 2

Depth == 5

\* draws of rng.gen::<f32>() for the jitter
Jitters == {<<0, 1>>, <<1, 2>>}

RenderWorld == <<Sphere(<<2, 0, 0>>, 1, LambertianMaterial(1, Grey))>>

\* the rays camera.create_ray hands to raycast: one misses, one hits the sphere
CameraRays == {Ray(<<0, 0, 0>>, <<0, -1, 0>>), Ray(<<0, 0, 0>>, <<1, 0, 0>>)}

SampleColors == UNION {raycast(RenderWorld, r, Depth) : r \in CameraRays}

HeaderLines ==
    <<[kind |-> "magic", text |-> "P3"],
      [kind |-> "size", w |-> ImageW, h |-> ImageH],
      [kind |-> "max", value |-> 255]>>

PixelLine(x, y, c) ==
    [kind |-> "pixel", x |-> x, y |-> y, c |-> c,
     r |-> QuantizeChannel(<<c.n[1], c.d>>, SamplesPerPixel),
     g |-> QuantizeChannel(<<c.n[2], c.d>>, SamplesPerPixel),
     b |-> QuantizeChannel(<<c.n[3], c.d>>, SamplesPerPixel)]

\* `for y in (0..IMAGE_H).rev()`: the first row
FirstRow == ImageH - 1

\* the rows taken upwards
NextRowAscending(y) == y + 1

\* `for y in (0..IMAGE_H).rev()`: the row after y
NextRow(y) == y - 1

RowsLeft(y) == 0 <= y /\ y < ImageH

RenderInit ==
    rn = [pc |-> "magic", y |-> 0, x |-> 0, s |-> 0, c |-> ColorZero,
          u |-> <<0, 1>>, v |-> <<0, 1>>, out |-> <<>>]

\* writeln!(&mut w, "P3"), line 333
WriteMagic ==
    /\ rn.pc = "magic"
    /\ rn' = [rn EXCEPT !.pc = "size", !.out = Append(rn.out, HeaderLines[1])]
    /\ UNCHANGED <<sp, wd, rc, sc>>

\* line 334
WriteSize ==
    /\ rn.pc = "size"
    /\ rn' = [rn EXCEPT !.pc = "max", !.out = Append(rn.out, HeaderLines[2])]
    /\ UNCHANGED <<sp, wd, rc, sc>>

\* line 335, and the entry of the loop over the rows
WriteMax ==
    /\ rn.pc = "max"
    /\ rn' = [rn EXCEPT !.pc = IF RowsLeft(FirstRow) THEN "pixel" ELSE "done",
                        !.y = FirstRow, !.x = 0,
                        !.out = Append(rn.out, HeaderLines[3])]
    /\ UNCHANGED <<sp, wd, rc, sc>>

\* line 340: a pixel starts with the color zero
StartPixel ==
    /\ rn.pc = "pixel"
    /\ rn' = [rn EXCEPT !.pc = "sample", !.s = 0, !.c = ColorZero]
    /\ UNCHANGED <<sp, wd, rc, sc>>

\* lines 343-353: one sample
Sample ==
    /\ rn.pc = "sample"
    /\ rn.s < SamplesPerPixel
    /\ \E rand_u \in Jitters, rand_v \in Jitters, color \in SampleColors :
          rn' = [rn EXCEPT
                    !.s = rn.s + 1,
                    !.u = RDiv(RAdd(<<rn.x, 1>>, rand_u), <<ImageW - 1, 1>>),
                    !.v = RDiv(RAdd(<<rn.y, 1>>, rand_v), <<ImageH - 1, 1>>),
                    !.c = CAdd(rn.c, color)]
    /\ UNCHANGED <<sp, wd, rc, sc>>

\* lines 355-360, and the steps of the two loops
WritePixel ==
    /\ rn.pc = "sample"
    /\ rn.s >= SamplesPerPixel
    /\ \E line \in {PixelLine(rn.x, rn.y, rn.c)} :
        \/ /\ rn.x + 1 < ImageW
           /\ rn' = [rn EXCEPT !.pc = "pixel", !.x = rn.x + 1,
                               !.out = Append(rn.out, line)]
        \/ /\ rn.x + 1 >= ImageW
           /\ RowsLeft(NextRow(rn.y))
           /\ rn' = [rn EXCEPT !.pc = "pixel", !.x = 0, !.y = NextRow(rn.y),
                               !.out = Append(rn.out, line)]
        \/ /\ rn.x + 1 >= ImageW
           /\ ~RowsLeft(NextRow(rn.y))
           /\ rn' = [rn EXCEPT !.pc = "done", !.out = Append(rn.out, line)]
    /\ UNCHANGED <<sp, wd, rc, sc>>

InitRender ==
    /\ RenderInit
    /\ sp = SpIdle /\ wd = WdIdle /\ rc = RcIdle /\ sc = ScIdle

NextRender ==
    WriteMagic \/ WriteSize \/ WriteMax \/ StartPixel \/ Sample \/ WritePixel

SpecRender == InitRender /\ [][NextRender]_vars

(***************************************************************************)
(* The quantization on its own: the render loop at the end of the samples  *)
(* of a pixel, the pixels before it black, with a bounded set of           *)
(* accumulated colors: averages below zero, zero, inside (0, 1), above 1.  *)
(***************************************************************************)
MaxSum == 5

AverageDens == {1, 4, 16}

\* accumulated colors whose averages are a / d per channel
QuantColors ==
    {CReduce(Color(<<SamplesPerPixel * a1, SamplesPerPixel * a2, SamplesPerPixel * a3>>, d)) :
        a1 \in -1..MaxSum, a2 \in {-1, 0, 1, MaxSum}, a3 \in {0, 1}, d \in AverageDens}

\* the pixel lines of the loops from (cx, cy) up to (x, y), all black
RECURSIVE BlackUntil(_, _, _, _)
BlackUntil(cx, cy, x, y) ==
    IF (cx = x /\ cy = y) \/ ~RowsLeft(cy)
    THEN <<>>
    ELSE <<PixelLine(cx, cy, ColorZero)>> \o
         (IF cx + 1 < ImageW THEN BlackUntil(cx + 1, cy, x, y)
                             ELSE BlackUntil(0, NextRow(cy), x, y))

QuantInit ==
    \E x \in 0..(ImageW - 1), y \in 0..(ImageH - 1), c \in QuantColors :
        rn = [pc |-> "sample", y |-> y, x |-> x, s |-> SamplesPerPixel, c |-> c,
              u |-> <<0, 1>>, v |-> <<0, 1>>,
              out |-> HeaderLines \o BlackUntil(0, FirstRow, x, y)]

InitQuant ==
    /\ QuantInit
    /\ sp = SpIdle /\ wd = WdIdle /\ rc = RcIdle /\ sc = ScIdle

NextQuant == WritePixel

SpecQuant == InitQuant /\ [][NextQuant]_vars

InRange(t, t_min, t_max) == RLt(t_min, t) /\ RLt(t, t_max)

OnRangeEnd(t, t_min, t_max) == REq(t, t_min) \/ REq(t, t_max)

SpDone == sp.pc = "done"

SpHasRoots == SpDone /\ Discriminant(sp.sphere, sp.ray) >= 0

SpLower == RootLower(sp.sphere, sp.ray)

SpUpper == RootUpper(sp.sphere, sp.ray)

(***************************************************************************)
(* C1.  Root selection: with discriminant >= 0, Sphere::raycast returns    *)
(* the smaller root when it lies in (t_min, t_max), otherwise the larger   *)
(* root when that one lies in (t_min, t_max), otherwise no intersection.   *)
(* Stated for the roots that are not exactly on an end of the range, where *)
(* the open and the closed reading of the range agree.                     *)
(***************************************************************************)
C1_RootSelection ==
    (/\ SpHasRoots
     /\ ~OnRangeEnd(SpLower, sp.t_min, sp.t_max)
     /\ ~OnRangeEnd(SpUpper, sp.t_min, sp.t_max))
    => IF InRange(SpLower, sp.t_min, sp.t_max)
       THEN IsSome(sp.hit) /\ Unwrap(sp.hit).t = SpLower
       ELSE IF InRange(SpUpper, sp.t_min, sp.t_max)
            THEN IsSome(sp.hit) /\ Unwrap(sp.hit).t = SpUpper
            ELSE sp.hit = None

(***************************************************************************)
(* C6.  Orientation: for every returned intersection, facing is true iff   *)
(* the ray direction and the outward normal (p - center) / radius have a   *)
(* negative dot product, and the returned normal satisfies                 *)
(* dot(normal, direction) <= 0.                                            *)
(***************************************************************************)
C6_Orientation ==
    (SpDone /\ IsSome(sp.hit)) =>
        LET h == Unwrap(sp.hit)
            outward == VDiv(VSub(h.p, sp.sphere.center), sp.sphere.radius)
        IN  /\ h.facing <=> (Dot(sp.ray.direction, outward) < 0)
            /\ Dot(h.normal, sp.ray.direction) <= 0

\* a sphere of negative radius is hit from outside: the normal was flipped
C6_Witness ==
    /\ SpDone /\ IsSome(sp.hit)
    /\ sp.sphere.radius < 0
    /\ ~Unwrap(sp.hit).facing
    /\ Dot(Unwrap(sp.hit).normal, sp.ray.direction) < 0

WdDone == wd.pc = "done"

\* what surface i alone reports for the whole range
WdReport(i) == SphereRaycast(wd.world[i], wd.ray, wd.t_min, wd.t_max)

WdReporting == {i \in 1..Len(wd.world) : IsSome(WdReport(i))}

(***************************************************************************)
(* C2.  Nearest hit: the scan returns nothing iff no surface reports an    *)
(* intersection for the range (t_min, t_max), and otherwise returns an     *)
(* intersection whose t is the minimum of the t values the surfaces        *)
(* report for that range.                                                  *)
(***************************************************************************)
C2_NearestHit ==
    WdDone =>
        /\ (wd.result = None) <=> (WdReporting = {})
        /\ IsSome(wd.result) =>
              /\ \E i \in WdReporting : REq(Unwrap(WdReport(i)).t, Unwrap(wd.result).t)
              /\ \A i \in WdReporting : ~RLt(Unwrap(WdReport(i)).t, Unwrap(wd.result).t)

\* the first surface is hit, a later one is nearer, and the last one is farther
C2_Witness ==
    /\ WdDone /\ IsSome(wd.result)
    /\ Len(wd.world) >= 3
    /\ 1 \in WdReporting /\ Len(wd.world) \in WdReporting
    /\ RLt(Unwrap(wd.result).t, Unwrap(WdReport(1)).t)
    /\ RLt(Unwrap(wd.result).t, Unwrap(WdReport(Len(wd.world))).t)

Permuted(world, f) == [i \in 1..Len(world) |-> world[f[i]]]

WdPermutedResults ==
    {find_closest_intersection(Permuted(wd.world, f), wd.ray, wd.t_min, wd.t_max) :
        f \in Permutations(1..Len(wd.world))}

\* the surfaces whose quadratic has a root at t
WdRootAt(t) ==
    {i \in 1..Len(wd.world) :
        /\ Discriminant(wd.world[i], wd.ray) >= 0
        /\ \/ REq(RootLower(wd.world[i], wd.ray), t)
           \/ REq(RootUpper(wd.world[i], wd.ray), t)}

ScDone == sc.pc = "done"

ScKind == sc.isect.material.kind

\* normalized reflection + fuzz * the random point drawn, dotted with the normal
ScPerturbedDotNormal ==
    LET v == RVOf(sc.dir)
        n == RVOf(sc.isect.normal)
        reflected == RVSub(v, RVScale(n, RMul(<<2, 1>>, RVDot(v, n))))
        unit == RVec(reflected.n, reflected.d * Sqrt(LengthSquared(sc.dir)))
        perturbed == RVAdd(unit, RVScale(sc.rand, sc.isect.material.fuzz))
    IN  RVDot(perturbed, n)

(***************************************************************************)
(* C7.  Absorption: Lambertian scatter and Dielectric scatter always       *)
(* return an outgoing ray; Metal scatter returns absorbed iff the dot      *)
(* product of the perturbed reflection direction (normalized reflection +  *)
(* fuzz * random point in the unit sphere) with the normal is <= 0.        *)
(***************************************************************************)
C7_Absorption ==
    ScDone =>
        /\ ScKind = "lambertian" => IsSome(sc.out)
        /\ ScKind = "dielectric" => IsSome(sc.out)
        /\ ScKind = "metal" => ((sc.out = None) <=> (ScPerturbedDotNormal[1] <= 0))

\* a fuzzed metal reflection that lies exactly in the surface is absorbed
C7_Witness ==
    /\ ScDone /\ ScKind = "metal"
    /\ sc.isect.material.fuzz # <<0, 1>>
    /\ ScPerturbedDotNormal[1] = 0
    /\ sc.out = None

RcReturned == rc.pc \in {"return", "done"}

(***************************************************************************)
(* C4.  The recursion terminates: a call with depth == 0 returns zero      *)
(* without querying the world, every recursive call is made with           *)
(* depth - 1, and the number of nested calls is at most depth + 1.         *)
(***************************************************************************)
C4_BoundedRecursion ==
    (rc.pc # "idle") =>
        /\ Len(rc.stack) + 1 <= rc.depth0 + 1
        /\ rc.calls <= rc.depth0 + 1
        /\ rc.depth = rc.depth0 - Len(rc.stack)
        /\ \A i \in 1..Len(rc.stack) : rc.stack[i].depth = rc.depth0 - (i - 1)
        /\ (rc.pc = "return" /\ rc.depth = 0) =>
              /\ rc.value = ColorZero
              /\ rc.queries = rc.calls - 1
        /\ rc.queries <= rc.calls

\* a path that scatters until the depth is used up: depth + 1 nested calls
C4_Witness ==
    /\ rc.pc = "return" /\ rc.depth = 0
    /\ rc.depth0 >= 2
    /\ Len(rc.stack) = rc.depth0
    /\ rc.calls = rc.depth0 + 1

RECURSIVE RcProduct(_, _, _)
\* atts[i] * (atts[i+1] * ( ... * base))
RcProduct(atts, i, base) ==
    IF i > Len(atts) THEN base ELSE CMul(atts[i], RcProduct(atts, i + 1, base))

\* the background of the axis-parallel rays: sky above, white below, their mean level
RcBackground(direction) ==
    IF direction[2] > 0 THEN Color(<<5, 7, 10>>, 10)
    ELSE IF direction[2] < 0 THEN Color(<<1, 1, 1>>, 1)
    ELSE Color(<<15, 17, 20>>, 20)

RcTerminal ==
    IF rc.term = "miss" THEN RcBackground(rc.last.direction) ELSE ColorZero

(***************************************************************************)
(* C5.  Radiance by case: a miss gives the background of that ray, an      *)
(* absorbed ray gives zero, a scatter gives attenuation times the radiance *)
(* of the outgoing ray at depth - 1.  So a path of k < depth scatters that *)
(* then misses yields the product of the k attenuations times the          *)
(* background, and a path absorbed or still hitting after depth bounces    *)
(* yields zero.  Checked for the value every call returns.                 *)
(***************************************************************************)
C5_RadianceByCase ==
    RcReturned =>
        /\ rc.value = RcProduct(rc.atts, Len(rc.stack) + 1, RcTerminal)
        /\ rc.term = "miss" =>
              /\ Len(rc.atts) < rc.depth0
              /\ find_closest_intersection(rc.world, rc.last, RaycastTMin,
                                           <<F32Max, 1>>) = None
        /\ rc.term = "exhausted" => Len(rc.atts) = rc.depth0
        /\ (rc.pc = "done" /\ rc.term \in {"absorbed", "exhausted"}) =>
              rc.value = ColorZero

\* two scatters, then a miss: the result is a product with the background
C5_Witness ==
    /\ rc.pc = "done" /\ rc.term = "miss"
    /\ Len(rc.atts) >= 2
    /\ rc.value # ColorZero
    /\ rc.value # RcBackground(rc.last.direction)

(***************************************************************************)
(* The render pass, main.rs:333-362.                                       *)
(***************************************************************************)
RnPixelCount == Len(rn.out) - Len(HeaderLines)

RnColumnOf(k) == k % ImageW

RnRowOf(k) == ImageH - 1 - (k \div ImageW)

\* C8: the output is at every step a prefix of: the three header lines
\* ("P3", "<width> <height>", "255"), then width*height pixel lines where
\* the k-th (from 0) is pixel x = k mod width, y = height - 1 - (k div width);
\* no pixel is written twice, the pixel being sampled is the one of the next
\* line, and at the end exactly width*height pixel lines are written.
C8_OutputSequence ==
    /\ Len(rn.out) <= 3 + ImageW * ImageH
    /\ \A i \in 1..Len(rn.out) :
          /\ (i = 1) => (rn.out[i].kind = "magic" /\ rn.out[i].text = "P3")
          /\ (i = 2) => /\ rn.out[i].kind = "size"
                        /\ rn.out[i].w = ImageW /\ rn.out[i].h = ImageH
          /\ (i = 3) => (rn.out[i].kind = "max" /\ rn.out[i].value = 255)
          /\ (i > 3) => /\ rn.out[i].kind = "pixel"
                        /\ rn.out[i].x = RnColumnOf(i - 4)
                        /\ rn.out[i].y = RnRowOf(i - 4)
    /\ \A i, j \in 4..Len(rn.out) :
          (rn.out[i].x = rn.out[j].x /\ rn.out[i].y = rn.out[j].y) => i = j
    /\ (rn.pc \in {"pixel", "sample"}) =>
          /\ Len(rn.out) >= 3
          /\ rn.x = RnColumnOf(RnPixelCount)
          /\ rn.y = RnRowOf(RnPixelCount)
    /\ (rn.pc = "done") => Len(rn.out) = 3 + ImageW * ImageH

C8_Witness ==
    /\ rn.pc = "done"
    /\ ImageH >= 2
    /\ Len(rn.out) = 3 + ImageW * ImageH
    /\ rn.out[4].y = ImageH - 1
    /\ rn.out[Len(rn.out)].y = 0

(***************************************************************************)
(* The written channels, main.rs:355-360 and 365-370.                      *)
(***************************************************************************)
RnPixelLines == {i \in 1..Len(rn.out) : rn.out[i].kind = "pixel"}

\* the channels of a pixel line: the accumulated sum and the integer written
RnChannels(line) ==
    {[sum |-> <<line.c.n[1], line.c.d>>, written |-> line.r],
     [sum |-> <<line.c.n[2], line.c.d>>, written |-> line.g],
     [sum |-> <<line.c.n[3], line.c.d>>, written |-> line.b]}

RnWritten == UNION {RnChannels(rn.out[i]) : i \in RnPixelLines}

\* C9: every channel value written to the image is an integer in [0, 255],
\* whatever the accumulated sum: above the number of samples, zero, negative.
C9_ChannelRange ==
    \A ch \in RnWritten : ch.written \in 0..255

C9_Witness ==
    /\ rn.pc # "sample"
    /\ \E i \in RnPixelLines :
          /\ \E ch \in RnChannels(rn.out[i]) :
                ch.sum[1] > SamplesPerPixel * ch.sum[2] /\ ch.written = 255
          /\ \E ch \in RnChannels(rn.out[i]) : ch.sum[1] = 0 /\ ch.written = 0

\* k = trunc(scale * clamp(sqrt(sum / samples), 0, 0.999)), the square of
\* scale being whole + millionths / 1000000; the root of a negative is NaN,
\* written as 0
TruncOfScaled(ch, whole, millionths) ==
    LET n == ch.sum[1]
        d == ch.sum[2] * SamplesPerPixel
        k == ch.written
        m == whole * n + (millionths * n) \div 1000000
    IN  IF n < 0 THEN k = 0
        ELSE IF 1000000 * n > 998001 * d THEN k = 255
        ELSE k >= 0 /\ k * k * d <= m /\ m < (k + 1) * (k + 1) * d

\* C10 as stated: for every accumulated channel sum c the written value is
\* the truncation of 256 * clamp(sqrt(c / samples_per_pixel), 0, 0.999).
C10_Quantization256 ==
    \A ch \in RnWritten : TruncOfScaled(ch, 65536, 0)

\* C10 as the code has it: for every accumulated channel sum c the written
\* value is the truncation of 255.999 * clamp(sqrt(c / samples_per_pixel),
\* 0, 0.999), and 0 when c is negative.
C10_Quantization255999 ==
    \A ch \in RnWritten : TruncOfScaled(ch, 65535, 488001)

C10_Witness ==
    /\ rn.pc # "sample"
    /\ \E ch \in RnWritten :
          /\ 4 * ch.sum[1] = SamplesPerPixel * ch.sum[2]
          /\ ch.written = 127

(***************************************************************************)
(* The coordinates handed to create_ray, main.rs:348-350.                  *)
(***************************************************************************)
RnSampled == rn.pc = "sample" /\ rn.s > 0

RnInUnit(q) == ~RLt(q, <<0, 1>>) /\ ~RLt(<<1, 1>>, q)

\* C11: for every pixel and every jitter pair in [0, 1) the coordinates
\* s = (x + jitter_x) / (width - 1) and t = (y + jitter_y) / (height - 1)
\* passed to create_ray both lie in [0, 1].
C11_CreateRayPrecondition ==
    RnSampled => (RnInUnit(rn.u) /\ RnInUnit(rn.v))

====
